---- MODULE Spec2Model ----
(***************************************************************************)
(* The agent backend: the websocket session of backend/main.py             *)
(* (execute_task_ws), the planner (Brain) and the tools (Toolbox).         *)
(*                                                                         *)
(* A Python str is a sequence of tokens, so that startswith, `in` and      *)
(* f-string formatting are computed on the text: "PAUSE: Password field    *)
(* detected." is <<"PAUSE", ":", " Password field detected.">>.  A Python  *)
(* dict is a function from its keys; {} is <<>>.  None is NoneVal.         *)
(***************************************************************************)
EXTENDS Integers, Sequences, FiniteSets, TLC

VARIABLES
    pc,                 \* position of execute_task_ws (the next await it runs)
    history,            \* brain.history
    last_result,        \* local last_result: NoneVal or Str(text)
    next_step,          \* local next_step: the dict brain.step returned
    inbox,              \* inbound websocket messages not yet received
    peer,               \* "open" | "gone": whether the client is still there
    client_state,       \* websocket.client_state
    application_state,  \* websocket.application_state
    toolbox,            \* the Toolbox object: playwright, browser, page
    world,              \* what the tools act on: DOM, files, browser handles
    trace               \* what the session did, in order (observation only)

vars == <<pc, history, last_result, next_step, inbox, peer, client_state,
          application_state, toolbox, world, trace>>

-----------------------------------------------------------------------------
(* Bounds of the model *)

\* brain.step calls of one session
MaxSteps == 2
\* text frames the client sends in one session
MaxInbound == 2
\* browser handles one Toolbox opens
MaxHandles == 2

-----------------------------------------------------------------------------
(* Python values *)

NoneVal == [none |-> TRUE, text |-> <<>>]
Str(t) == [none |-> FALSE, text |-> t]

\* t.startswith(p)
StartsWith(t, p) == Len(t) >= Len(p) /\ SubSeq(t, 1, Len(p)) = p
\* tok in t
Contains(t, tok) == \E i \in 1..Len(t) : t[i] = tok
\* bool(v) of an Optional[str]: None and "" are falsy
Truthy(v) == ~v.none /\ Len(v.text) > 0

Last(s) == s[Len(s)]

-----------------------------------------------------------------------------
(* The world of the tools *)

Selectors == {<<"#user">>, <<"#pass">>, <<"#login">>, <<"#gone">>}

\* a page: selector -> value of the element's type attribute ("none": no
\* such attribute); a selector outside the domain matches no element
LoginPage ==
    (<<"#user">> :> "text") @@ (<<"#pass">> :> "password") @@ (<<"#login">> :> "none")
PlainPage ==
    (<<"#user">> :> "text") @@ (<<"#login">> :> "submit")

Urls == {<<"http://site/login">>, <<"http://site/plain">>}
PageAt(url) == IF url = <<"http://site/login">> THEN LoginPage ELSE PlainPage
\* page.content() of a page
ContentOf(dom) ==
    IF dom = LoginPage THEN <<"<html>", "login", "</html>">>
    ELSE <<"PAUSE", ":", " is printed on this page">>

\* paths the file tools are called with: relative to the working directory,
\* and escaping it
GoodPaths == {<<"notes.txt">>, <<"empty.txt">>, <<"config.toml">>, <<"new.txt">>}
BadPaths == {<<"..", "/secret.txt">>, <<"/", "etc/passwd">>, <<"sub/", "..", "/x">>}
Contents == {<<>>, <<"new content">>}

\* PROTECTED_FILES of config.toml's [security] section
PROTECTED_FILES == {<<"config.toml">>}

InitFs ==
    (<<"notes.txt">> :> <<"PAUSE", ":", " read the manual">>)
    @@ (<<"empty.txt">> :> <<>>)
    @@ (<<"config.toml">> :> <<"hello">>)

InitToolbox == [playwright |-> FALSE, browser |-> 0, page |-> 0]

InitWorld ==
    [dom |-> <<>>, fs |-> InitFs, effects |-> {}, opened |-> 0, closeLog |-> <<>>]

\* one way a tool call can end: a returned text or a raised exception (text
\* is then str(e)), and the toolbox and world it leaves
Outcome(raised, text, tb, w) ==
    [raised |-> raised, text |-> text, tb |-> tb, w |-> w]

ErrText == <<"driver failure">>

-----------------------------------------------------------------------------
(* Toolbox: backend/main.py, the same class as backend/core/toolbox.py *)

NotAttached == <<"Error", ": Not attached to a browser.">>
PauseText == <<"PAUSE", ":", " Password field detected.">>
AccessDenied ==
    <<"Error", ": Access to parent or absolute directories is not allowed.">>

\* the page object is usable: it belongs to a browser that is still open
PageAlive(tb, w) ==
    tb.page # 0 /\ \A i \in 1..Len(w.closeLog) : w.closeLog[i] # tb.page

\* Toolbox.browser_attach: start playwright when not started, connect,
\* take the browser's first page or a new one
browser_attach(tb, w, cdp_url) ==
    LET tb1 == [tb EXCEPT !.playwright = TRUE]
        h == w.opened + 1
        w1 == [w EXCEPT !.opened = h]
        failed == <<"Error", " attaching to browser: ">> \o ErrText \o <<".">>
    IN  (IF tb.playwright THEN {} ELSE {Outcome(TRUE, ErrText, tb, w)})
        \cup {Outcome(FALSE, failed, tb1, w)}
        \cup (IF h > MaxHandles THEN {}
              ELSE {Outcome(FALSE, failed, [tb1 EXCEPT !.browser = h], w1),
                    Outcome(FALSE, <<"Successfully attached to the browser.">>,
                            [tb1 EXCEPT !.browser = h, !.page = h],
                            [w1 EXCEPT !.dom = LoginPage])})

\* Toolbox.browser_navigate
browser_navigate(tb, w, url) ==
    IF tb.page = 0 THEN {Outcome(FALSE, NotAttached, tb, w)}
    ELSE {Outcome(FALSE, <<"Error", " navigating: ">> \o ErrText, tb, w)}
         \cup (IF PageAlive(tb, w)
               THEN {Outcome(FALSE, <<"Navigated to ">> \o url \o <<".">>, tb,
                             [w EXCEPT !.dom = PageAt(url)])}
               ELSE {})

\* element.get_attribute("type") raises when the locator matches nothing
\* or the page is gone
HasElement(tb, w, selector) == PageAlive(tb, w) /\ selector \in DOMAIN w.dom

\* the side effect of element.click() / element.fill(text)
Effect(w, op, selector) ==
    [w EXCEPT !.effects = @ \cup {[op |-> op, selector |-> selector,
                                   type |-> w.dom[selector]]}]

\* browser_click without the test of the element's type
browser_click_unchecked(tb, w, selector) ==
    IF tb.page = 0 THEN {Outcome(FALSE, NotAttached, tb, w)}
    ELSE IF ~HasElement(tb, w, selector) THEN {Outcome(TRUE, ErrText, tb, w)}
    ELSE {Outcome(FALSE, <<"Clicked on '">> \o selector \o <<"'.">>, tb,
                  Effect(w, "click", selector)),
          Outcome(FALSE, <<"Error", " clicking element: ">> \o ErrText, tb, w)}

\* Toolbox.browser_click
browser_click(tb, w, selector) ==
    IF tb.page = 0 THEN {Outcome(FALSE, NotAttached, tb, w)}
    ELSE IF ~HasElement(tb, w, selector) THEN {Outcome(TRUE, ErrText, tb, w)}
    ELSE IF w.dom[selector] = "password" THEN {Outcome(FALSE, PauseText, tb, w)}
    ELSE {Outcome(FALSE, <<"Clicked on '">> \o selector \o <<"'.">>, tb,
                  Effect(w, "click", selector)),
          Outcome(FALSE, <<"Error", " clicking element: ">> \o ErrText, tb, w)}

\* Toolbox.browser_type_text
browser_type_text(tb, w, selector, text) ==
    IF tb.page = 0 THEN {Outcome(FALSE, NotAttached, tb, w)}
    ELSE IF ~HasElement(tb, w, selector) THEN {Outcome(TRUE, ErrText, tb, w)}
    ELSE IF w.dom[selector] = "password" THEN {Outcome(FALSE, PauseText, tb, w)}
    ELSE {Outcome(FALSE, <<"Typed text into '">> \o selector \o <<"'.">>, tb,
                  Effect(w, "fill", selector)),
          Outcome(FALSE, <<"Error", " typing text: ">> \o ErrText, tb, w)}

\* Toolbox.browser_type_and_submit: what it returns for one outcome of the
\* click, itself reached after one outcome of the typing
SubmitResult(click) ==
    IF click.raised THEN click
    ELSE IF Contains(click.text, "Error")
    THEN [click EXCEPT !.text = <<"Text typed, but submit failed: ">> \o @]
    ELSE [click EXCEPT !.text = <<"Successfully typed and submitted.">>]

\* Toolbox.browser_type_and_submit
browser_type_and_submit(tb, w, type_selector, text, submit_selector) ==
    UNION { IF typed.raised \/ Contains(typed.text, "PAUSE")
               \/ Contains(typed.text, "Error")
            THEN {typed}
            ELSE {SubmitResult(click) :
                    click \in browser_click(typed.tb, typed.w, submit_selector)}
          : typed \in browser_type_text(tb, w, type_selector, text) }

\* Toolbox.browser_wait_for_response
browser_wait_for_response(tb, w, selector, timeout) ==
    IF tb.page = 0 THEN {Outcome(FALSE, NotAttached, tb, w)}
    ELSE IF HasElement(tb, w, selector)
    THEN {Outcome(FALSE, <<"Element '">> \o selector \o <<"' appeared.">>, tb, w)}
    ELSE {Outcome(FALSE, <<"Error", " waiting for '">> \o selector \o <<"': ">>
                         \o ErrText, tb, w)}

\* Toolbox.browser_extract_text
browser_extract_text(tb, w) ==
    IF tb.page = 0 THEN {Outcome(FALSE, NotAttached, tb, w)}
    ELSE IF PageAlive(tb, w) THEN {Outcome(FALSE, ContentOf(w.dom), tb, w)}
    ELSE {Outcome(FALSE, <<"Error", " extracting text: ">> \o ErrText, tb, w)}

\* Toolbox.disconnect: close the browser held, stop playwright
disconnect(tb, w) ==
    LET closed == IF tb.browser = 0 THEN w
                  ELSE [w EXCEPT !.closeLog = Append(@, tb.browser)]
    IN  (IF tb.browser = 0 THEN {} ELSE {Outcome(TRUE, ErrText, tb, w)})
        \cup {Outcome(FALSE, <<>>, [tb EXCEPT !.browser = 0, !.playwright = FALSE],
                      closed)}

\* the guard of the file tools: ".." in path or path.startswith("/")
Escapes(path) == Contains(path, "..") \/ StartsWith(path, <<"/">>)

\* the orders os.listdir may give the names in
RECURSIVE Orders(_)
Orders(S) ==
    IF S = {} THEN {<<>>}
    ELSE UNION { { <<x>> \o rest : rest \in Orders(S \ {x}) } : x \in S }

\* "\n".join(names)
RECURSIVE Join(_)
Join(names) ==
    IF Len(names) = 0 THEN <<>>
    ELSE IF Len(names) = 1 THEN names[1]
    ELSE names[1] \o <<"\n">> \o Join(Tail(names))

\* Toolbox.list_files
list_files(tb, w, path) ==
    IF Escapes(path) THEN {Outcome(FALSE, AccessDenied, tb, w)}
    ELSE IF path = <<".">>
    THEN {Outcome(FALSE, Join(names), tb, w) : names \in Orders(DOMAIN w.fs)}
    ELSE {Outcome(FALSE, <<"Error", " listing files: ">> \o ErrText, tb, w)}

\* Toolbox.read_file
read_file(tb, w, path) ==
    IF Escapes(path) THEN {Outcome(FALSE, AccessDenied, tb, w)}
    ELSE IF path \in DOMAIN w.fs THEN {Outcome(FALSE, w.fs[path], tb, w)}
    ELSE {Outcome(FALSE, <<"Error", " reading file: ">> \o ErrText, tb, w)}

\* write_file without the test of PROTECTED_FILES
write_file_unprotected(tb, w, path, content) ==
    IF Escapes(path) THEN {Outcome(FALSE, AccessDenied, tb, w)}
    ELSE {Outcome(FALSE, <<"File '">> \o path \o <<"' written successfully.">>,
                  tb, [w EXCEPT !.fs = (path :> content) @@ @]),
          Outcome(FALSE, <<"Error", " writing file: ">> \o ErrText, tb, w)}

\* Toolbox.write_file
write_file(tb, w, path, content) ==
    IF Escapes(path) THEN {Outcome(FALSE, AccessDenied, tb, w)}
    ELSE IF path \in DOMAIN w.fs /\ path \in PROTECTED_FILES
    THEN {Outcome(FALSE, <<"Error", ": Overwriting '">> \o path
                         \o <<"' is not allowed.">>, tb, w)}
    ELSE {Outcome(FALSE, <<"File '">> \o path \o <<"' written successfully.">>,
                  tb, [w EXCEPT !.fs = (path :> content) @@ @]),
          Outcome(FALSE, <<"Error", " writing file: ">> \o ErrText, tb, w)}

\* the keyword parameters of each entry of tool_map: required, optional
Signature ==
    [list_files |-> [req |-> {}, opt |-> {"path"}],
     read_file |-> [req |-> {"path"}, opt |-> {}],
     write_file |-> [req |-> {"path", "content"}, opt |-> {}],
     browser_attach |-> [req |-> {"cdp_url"}, opt |-> {}],
     browser_navigate |-> [req |-> {"url"}, opt |-> {}],
     browser_click |-> [req |-> {"selector"}, opt |-> {}],
     browser_type_text |-> [req |-> {"selector", "text"}, opt |-> {}],
     browser_type_and_submit |->
        [req |-> {"type_selector", "text", "submit_selector"}, opt |-> {}],
     browser_wait_for_response |-> [req |-> {"selector"}, opt |-> {"timeout"}],
     browser_extract_text |-> [req |-> {}, opt |-> {}]]

\* tool_function(**params) binds: no parameter missing, none unexpected
Binds(tool_name, params) ==
    /\ Signature[tool_name].req \subseteq DOMAIN params
    /\ DOMAIN params \subseteq Signature[tool_name].req \cup Signature[tool_name].opt

\* the default of an optional parameter
Arg(params, key, default) == IF key \in DOMAIN params THEN params[key] ELSE default

\* Toolbox.execute_tool
execute_tool(tb, w, tool_name, params) ==
    IF tool_name \notin DOMAIN Signature
    THEN {Outcome(TRUE, <<"Unknown tool", ": ", tool_name>>, tb, w)}
    ELSE IF ~Binds(tool_name, params)
    THEN {Outcome(TRUE, <<"TypeError">>, tb, w)}
    ELSE CASE tool_name = "list_files" ->
                list_files(tb, w, Arg(params, "path", <<".">>))
           [] tool_name = "read_file" -> read_file(tb, w, params.path)
           [] tool_name = "write_file" ->
                write_file(tb, w, params.path, params.content)
           [] tool_name = "browser_attach" -> browser_attach(tb, w, params.cdp_url)
           [] tool_name = "browser_navigate" -> browser_navigate(tb, w, params.url)
           [] tool_name = "browser_click" -> browser_click(tb, w, params.selector)
           [] tool_name = "browser_type_text" ->
                browser_type_text(tb, w, params.selector, params.text)
           [] tool_name = "browser_type_and_submit" ->
                browser_type_and_submit(tb, w, params.type_selector, params.text,
                                        params.submit_selector)
           [] tool_name = "browser_wait_for_response" ->
                browser_wait_for_response(tb, w, params.selector,
                                          Arg(params, "timeout", 30000))
           [] OTHER -> browser_extract_text(tb, w)

-----------------------------------------------------------------------------
(* Brain: backend/main.py, the same class as backend/core/brain.py *)

\* json.dumps of Toolbox.get_tools_json_schema(): the tools it describes
ToolsSchema ==
    <<"list_files", "read_file", "write_file", "browser_attach",
      "browser_navigate", "browser_click", "browser_type_text",
      "browser_type_and_submit", "browser_wait_for_response",
      "browser_extract_text", "finish_task">>

\* Brain._get_system_prompt
SystemPrompt == <<"You are a helpful AI assistant.", "Available tools:">> \o ToolsSchema

\* Brain.initialize_history
initialize_history == <<[role |-> "system", content |-> SystemPrompt]>>

\* a user message that replaces the history instead of extending it
add_user_message_Replacing(h, message) ==
    <<[role |-> "user", content |-> message]>>

\* Brain.add_user_message
add_user_message(h, message) == Append(h, [role |-> "user", content |-> message])

\* the first statement of Brain.step: `if last_action_result:` append it
ReportToolOutput(h, last_action_result) ==
    IF Truthy(last_action_result)
    THEN Append(h, [role |-> "user",
                    content |-> <<"Tool output: ">> \o last_action_result.text])
    ELSE h

\* What the model answers.  A content is the raw text of the answer: wf says
\* whether it is well-formed JSON, json is then the dict it denotes (a
\* function from its keys), and text is the raw text of an answer that is
\* not JSON.
JsonContent(v) == [wf |-> TRUE, json |-> v, text |-> <<>>]
RawContent(t) == [wf |-> FALSE, json |-> <<>>, text |-> t]

Call(name, params) == [action |-> name, params |-> params]

ThoughtContent == JsonContent([thought |-> <<"thinking">>])
FinishContent == JsonContent(Call("finish_task", [reason |-> <<"done">>]))
UnknownContent == JsonContent(Call("nonexistent_tool", <<>>))

\* the answers of the model in a session
SessionContents ==
    { ThoughtContent,
      FinishContent,
      UnknownContent,
      JsonContent(Call("browser_attach", [cdp_url |-> <<"http://localhost:9222">>])),
      JsonContent(Call("browser_click", [selector |-> <<"#pass">>])),
      JsonContent(Call("read_file", [path |-> <<"notes.txt">>])),
      JsonContent(Call("read_file", [path |-> <<"empty.txt">>])) }

\* client.chat either answers or raises
ChatReplies ==
    {[failed |-> FALSE, content |-> c] : c \in SessionContents}
    \cup {[failed |-> TRUE, content |-> RawContent(<<>>)]}

\* json.loads(response_content), and the JSONDecodeError fallback
Decode(content) ==
    IF content.wf THEN content.json ELSE [thought |-> content.text]

\* Brain.step with the reply client.chat gives: the history it leaves, and
\* the value it returns unless it raised
step(h, last_action_result, reply) ==
    LET h1 == ReportToolOutput(h, last_action_result)
    IN  IF reply.failed
        THEN [raised |-> TRUE, history |-> h1, value |-> <<>>]
        ELSE [raised |-> FALSE,
              history |-> Append(h1, [role |-> "assistant", content |-> reply.content]),
              value |-> Decode(reply.content)]

-----------------------------------------------------------------------------
(* The websocket: what execute_task_ws sees of it *)

Text(t) == [kind |-> "text", text |-> t]
Disconnect == [kind |-> "disconnect", text |-> <<>>]

Frames == {<<"stop">>, <<"resume">>, <<"hello">>}

\* websocket.receive_text() returns or raises as soon as one of these holds
Receivable == client_state = "DISCONNECTED" \/ inbox # <<>>

\* what websocket.receive_text() then gives: a text, or the exception raised
Received ==
    IF client_state = "DISCONNECTED"
    THEN [kind |-> "RuntimeError", text |-> <<"receive after disconnect">>]
    ELSE Head(inbox)

\* the ways websocket.send_json(frame) can end: "sent" and "dropped" return,
\* the others are the exception raised
SendOutcomes ==
    IF application_state = "DISCONNECTED" THEN {"RuntimeError"}
    ELSE IF peer = "gone" THEN {"dropped", "WebSocketDisconnect"}
    ELSE {"sent"}

Returns(o) == o \in {"sent", "dropped"}

AppStateAfter(o) ==
    IF o = "WebSocketDisconnect" THEN "DISCONNECTED" ELSE application_state

\* the events of the trace
Recv(at, t) == [ev |-> "recv", at |-> at, text |-> t]
Lost(at) == [ev |-> "lost", at |-> at]
Send(frame, o) == [ev |-> "send", frame |-> frame, outcome |-> o]
Stepped(arg, raised) == [ev |-> "step", arg |-> arg, raised |-> raised]
Exec(tool, params, tb, w, o) ==
    [ev |-> "exec", tool |-> tool, params |-> params, page |-> tb.page,
     dom |-> w.dom, alive |-> PageAlive(tb, w), raised |-> o.raised, text |-> o.text,
     effects |-> o.w.effects \ w.effects]
Released(raised) == [ev |-> "toolbox.disconnect", raised |-> raised]
Closed(state) == [ev |-> "close", state |-> state]

Count(kind) == Cardinality({i \in 1..Len(trace) : trace[i].ev = kind})

\* brain.step calls so far
Steps == Count("step")
\* text frames the client has sent so far
Inbound ==
    Count("recv") + Cardinality({i \in 1..Len(inbox) : inbox[i].kind = "text"})

Status(message) == [type |-> "status", message |-> message]
ActionResult(tool, output) ==
    [type |-> "action_result", tool |-> tool, output |-> output]
Pause(message) == [type |-> "pause", message |-> message]
Error(message) == [type |-> "error", message |-> message]

\* the message without the exception's text
ErrorExecuting_NoCause(action, e) == <<"Error", " executing tool ", action>>

\* f"Error executing tool {action}: {e}"
ErrorExecuting(action, e) == <<"Error", " executing tool ", action, ": ">> \o e

\* str(e) of the exception a send or a receive raised
ExcText(kind) == <<kind>>

ResumeAck == <<"User has handled the password field.">>

-----------------------------------------------------------------------------
(* execute_task_ws: backend/main.py *)

Init ==
    /\ pc = "receive"
    /\ history = initialize_history
    /\ last_result = NoneVal
    /\ next_step = <<>>
    /\ inbox = <<>>
    /\ peer = "open"
    /\ client_state = "CONNECTED"
    /\ application_state = "CONNECTED"
    /\ toolbox = InitToolbox
    /\ world = InitWorld
    /\ trace = <<>>

Log(e) == trace' = Append(trace, e)

\* the handler is in its loop: what the client does after it has left the
\* loop is never received
InLoop == pc \notin {"finally", "done"}

\* the client sends a text frame
ClientSend ==
    /\ InLoop
    /\ peer = "open"
    /\ Inbound < MaxInbound
    /\ \E t \in Frames : inbox' = Append(inbox, Text(t))
    /\ UNCHANGED <<pc, history, last_result, next_step, peer, client_state,
                   application_state, toolbox, world, trace>>

\* the client goes away
ClientDisconnect ==
    /\ InLoop
    /\ peer = "open"
    /\ peer' = "gone"
    /\ inbox' = Append(inbox, Disconnect)
    /\ UNCHANGED <<pc, history, last_result, next_step, client_state,
                   application_state, toolbox, world, trace>>

\* a disconnect that leaves the function without passing its finally
AfterIdleReceive_NoFinally(m) ==
    IF m.kind # "text" THEN "done"
    ELSE IF m.text = <<"stop">> THEN "send_stopped"
    ELSE "step"

\* "stop" taken for an instruction like any other
AfterIdleReceive_StopIgnored(m) ==
    IF m.kind # "text" THEN "finally" ELSE "step"

\* what the receive at the top of the outer loop leads to (lines 197-206)
AfterIdleReceive(m) ==
    IF m.kind # "text" THEN "finally"
    ELSE IF m.text = <<"stop">> THEN "send_stopped"
    ELSE "step"

\* user_message = await websocket.receive_text(), the stop test, the start
\* of a turn
ReceiveIdle ==
    /\ pc = "receive"
    /\ Receivable
    /\ LET m == Received
           to == AfterIdleReceive(m)
       IN  /\ pc' = to
           /\ inbox' = IF m.kind = "RuntimeError" THEN inbox ELSE Tail(inbox)
           /\ client_state' = IF m.kind = "text" THEN client_state ELSE "DISCONNECTED"
           /\ history' = IF to = "step" THEN add_user_message(history, m.text)
                         ELSE history
           /\ last_result' = IF to = "step" THEN NoneVal ELSE last_result
           /\ Log(IF m.kind = "text" THEN Recv("idle", m.text) ELSE Lost("idle"))
    /\ UNCHANGED <<next_step, peer, application_state, toolbox, world>>

\* await websocket.send_json({"type": "status", "message": "Agent stopped by
\* user."}); break
SendStopped ==
    /\ pc = "send_stopped"
    /\ \E o \in SendOutcomes :
        /\ Log(Send(Status(<<"Agent stopped by user.">>), o))
        /\ application_state' = AppStateAfter(o)
    /\ pc' = "finally"
    /\ UNCHANGED <<history, last_result, next_step, inbox, peer, client_state,
                   toolbox, world>>

\* next_step = await brain.step(last_result)
Step ==
    /\ pc = "step"
    /\ Steps < MaxSteps
    /\ \E reply \in ChatReplies :
        LET r == step(history, last_result, reply)
        IN  /\ history' = r.history
            /\ next_step' = IF r.raised THEN next_step ELSE r.value
            /\ pc' = IF r.raised THEN "finally" ELSE "send_step"
            /\ Log(Stepped(last_result, r.raised))
    /\ UNCHANGED <<last_result, inbox, peer, client_state, application_state,
                   toolbox, world>>

\* finish_task not leaving the inner loop
Dispatch_FinishContinues(ns) ==
    IF "action" \in DOMAIN ns
    THEN IF ns.action = "finish_task" THEN "poll" ELSE "execute"
    ELSE "poll"

\* finish_task dispatched like any other action
Dispatch_FinishDispatched(ns) ==
    IF "action" \in DOMAIN ns THEN "execute" ELSE "poll"

\* a step without an action ending the turn
Dispatch_ThoughtEndsTurn(ns) ==
    IF "action" \in DOMAIN ns
    THEN IF ns.action = "finish_task" THEN "receive" ELSE "execute"
    ELSE "receive"

\* lines 211-216 and 236-237: where the loop goes once next_step is sent
Dispatch(ns) ==
    IF "action" \in DOMAIN ns
    THEN IF ns.action = "finish_task" THEN "receive" ELSE "execute"
    ELSE "poll"

\* await websocket.send_json(next_step), then the dispatch on next_step
SendStep ==
    /\ pc = "send_step"
    /\ \E o \in SendOutcomes :
        LET to == IF Returns(o) THEN Dispatch(next_step) ELSE "finally"
        IN  /\ Log(Send(next_step, o))
            /\ application_state' = AppStateAfter(o)
            /\ pc' = to
            /\ last_result' = IF to = "poll" THEN NoneVal ELSE last_result
    /\ UNCHANGED <<history, next_step, inbox, peer, client_state, toolbox, world>>

\* next_step.get("params", {})
ParamsOf(ns) == IF "params" \in DOMAIN ns THEN ns.params ELSE <<>>

\* an exception of the tool reported like a result
AfterExecute_ErrorAsResult(o) == "send_result"

\* an exception of the tool going unreported
AfterExecute_Unreported(o) == IF o.raised THEN "poll" ELSE "send_result"

\* what follows the call of line 219: the result frame of line 221, or the
\* handler of line 233 and its error frame
AfterExecute(o) == IF o.raised THEN "send_error" ELSE "send_result"

\* result = await toolbox.execute_tool(action, params); last_result =
\* str(result); an exception is caught at line 233
Execute ==
    /\ pc = "execute"
    /\ \E o \in execute_tool(toolbox, world, next_step.action, ParamsOf(next_step)) :
        /\ toolbox' = o.tb
        /\ world' = o.w
        /\ last_result' = IF o.raised
                          THEN Str(ErrorExecuting(next_step.action, o.text))
                          ELSE Str(o.text)
        /\ pc' = AfterExecute(o)
        /\ Log(Exec(next_step.action, ParamsOf(next_step), toolbox, world, o))
    /\ UNCHANGED <<history, next_step, inbox, peer, client_state, application_state>>

\* a sentinel test that never matches
IsPause_Never(v) == FALSE

\* a sentinel test that always matches
IsPause_Always(v) == TRUE

\* last_result.startswith("PAUSE:")
IsPause(v) == StartsWith(v.text, <<"PAUSE", ":">>)

\* a send inside the try of lines 218-231: it returns and the loop goes to
\* `to`, or it raises and the except of line 233 takes over
SendInTry(frame, to) ==
    \E o \in SendOutcomes :
        /\ Log(Send(frame, o))
        /\ application_state' = AppStateAfter(o)
        /\ pc' = IF Returns(o) THEN to ELSE "send_error"
        /\ last_result' = IF Returns(o) THEN last_result
                          ELSE Str(ErrorExecuting(next_step.action, ExcText(o)))

\* await websocket.send_json({"type": "action_result", ...}) and the test
\* of the pause sentinel
SendResult ==
    /\ pc = "send_result"
    /\ SendInTry(ActionResult(next_step.action, last_result.text),
                 IF IsPause(last_result) THEN "send_pause" ELSE "poll")
    /\ UNCHANGED <<history, next_step, inbox, peer, client_state, toolbox, world>>

\* await websocket.send_json({"type": "pause", "message": last_result})
SendPause ==
    /\ pc = "send_pause"
    /\ SendInTry(Pause(last_result.text), "receive_pause")
    /\ UNCHANGED <<history, next_step, inbox, peer, client_state, toolbox, world>>

\* "resume" taken for an instruction like any other
AfterPauseReceive_ResumeAsText(m) ==
    IF m.kind # "text" THEN "send_error" ELSE "receive"

\* another instruction not leaving the inner loop
AfterPauseReceive_NoBreak(m) ==
    IF m.kind # "text" THEN "send_error"
    ELSE IF m.text = <<"resume">> THEN "send_resuming"
    ELSE "poll"

\* what the receive of line 225 leads to
AfterPauseReceive(m) ==
    IF m.kind # "text" THEN "send_error"
    ELSE IF m.text = <<"resume">> THEN "send_resuming"
    ELSE "receive"

\* resume_msg = await websocket.receive_text() and lines 226-231
ReceivePause ==
    /\ pc = "receive_pause"
    /\ Receivable
    /\ LET m == Received
           to == AfterPauseReceive(m)
       IN  /\ pc' = to
           /\ inbox' = IF m.kind = "RuntimeError" THEN inbox ELSE Tail(inbox)
           /\ client_state' = IF m.kind = "text" THEN client_state ELSE "DISCONNECTED"
           /\ last_result' =
                CASE to = "send_resuming" -> Str(ResumeAck)
                  [] to = "send_error" ->
                        Str(ErrorExecuting(next_step.action, ExcText(m.kind)))
                  [] OTHER -> last_result
           /\ history' = IF to = "receive" THEN add_user_message(history, m.text)
                         ELSE history
           /\ Log(IF m.kind = "text" THEN Recv("pause", m.text) ELSE Lost("pause"))
    /\ UNCHANGED <<next_step, peer, application_state, toolbox, world>>

\* await websocket.send_json({"type": "status", "message": "Agent is
\* resuming."})
SendResuming ==
    /\ pc = "send_resuming"
    /\ SendInTry(Status(<<"Agent is resuming.">>), "poll")
    /\ UNCHANGED <<history, next_step, inbox, peer, client_state, toolbox, world>>

\* a send outside the inner try: it returns and the loop goes to `to`, or
\* it raises and the function is left through its finally
SendOrLeave(frame, to) ==
    \E o \in SendOutcomes :
        /\ Log(Send(frame, o))
        /\ application_state' = AppStateAfter(o)
        /\ pc' = IF Returns(o) THEN to ELSE "finally"

\* line 235: await websocket.send_json({"type": "error", "message":
\* last_result})
SendError ==
    /\ pc = "send_error"
    /\ SendOrLeave(Error(last_result.text), "poll")
    /\ UNCHANGED <<history, last_result, next_step, inbox, peer, client_state,
                   toolbox, world>>

\* "stop" ending the session wherever it is received
AfterPoll_StopCloses(m) ==
    IF m.kind = "timeout" THEN "step"
    ELSE IF m.kind = "text" THEN
        IF m.text = <<"stop">> THEN "send_stopped" ELSE "send_replanning"
    ELSE "finally"

\* what the poll of line 240 leads to: `continue` on a timeout
AfterPoll(m) ==
    IF m.kind = "timeout" THEN "step"
    ELSE IF m.kind = "text" THEN "send_replanning"
    ELSE "finally"

\* asyncio.wait_for(websocket.receive_text(), timeout=0.01)
Polled == IF Receivable THEN Received ELSE [kind |-> "timeout", text |-> <<>>]

\* lines 239-245: the interrupt poll
Poll ==
    /\ pc = "poll"
    /\ LET m == Polled
           to == AfterPoll(m)
       IN  /\ pc' = to
           /\ inbox' = IF m.kind \in {"text", "disconnect"} THEN Tail(inbox) ELSE inbox
           /\ client_state' = IF m.kind \in {"text", "timeout"} THEN client_state
                              ELSE "DISCONNECTED"
           /\ history' = IF m.kind = "text" THEN add_user_message(history, m.text)
                         ELSE history
           /\ trace' = CASE m.kind = "text" -> Append(trace, Recv("poll", m.text))
                         [] m.kind = "timeout" -> trace
                         [] OTHER -> Append(trace, Lost("poll"))
    /\ UNCHANGED <<last_result, next_step, peer, application_state, toolbox, world>>

\* await websocket.send_json({"type": "status", "message": "Received new
\* instruction, replanning..."}); break
SendReplanning ==
    /\ pc = "send_replanning"
    /\ SendOrLeave(Status(<<"Received new instruction, replanning...">>), "receive")
    /\ UNCHANGED <<history, last_result, next_step, inbox, peer, client_state,
                   toolbox, world>>

\* websocket.client_state == 'DISCONNECTED': a WebSocketState member never
\* equals a str
StateEqualsStr(state, str) == FALSE

\* the finally block: await toolbox.disconnect(); then, unless that raised,
\* if not websocket.client_state == 'DISCONNECTED': await websocket.close()
Finally ==
    /\ pc = "finally"
    /\ \E o \in disconnect(toolbox, world) :
        LET closes == ~o.raised /\ ~StateEqualsStr(client_state, "DISCONNECTED")
        IN  /\ toolbox' = o.tb
            /\ world' = o.w
            /\ trace' = Append(trace, Released(o.raised))
                         \o (IF closes THEN <<Closed(application_state)>> ELSE <<>>)
            /\ application_state' = IF closes THEN "DISCONNECTED"
                                     ELSE application_state
    /\ pc' = "done"
    /\ UNCHANGED <<history, last_result, next_step, inbox, peer, client_state>>

Next ==
    \/ ClientSend
    \/ ClientDisconnect
    \/ ReceiveIdle
    \/ SendStopped
    \/ Step
    \/ SendStep
    \/ Execute
    \/ SendResult
    \/ SendPause
    \/ ReceivePause
    \/ SendResuming
    \/ SendError
    \/ Poll
    \/ SendReplanning
    \/ Finally

Spec == Init /\ [][Next]_vars

\* what the handler does on its own: every await of execute_task_ws that can
\* complete does complete (the event loop runs the coroutine, the planner
\* and the tools answer); nothing is assumed of the client
Handler ==
    \/ ReceiveIdle
    \/ SendStopped
    \/ Step
    \/ SendStep
    \/ Execute
    \/ SendResult
    \/ SendPause
    \/ ReceivePause
    \/ SendResuming
    \/ SendError
    \/ Poll
    \/ SendReplanning
    \/ Finally

FairSpec == Spec /\ WF_vars(Handler)

-----------------------------------------------------------------------------
(* The browser tools called directly, in any order, on one Toolbox *)

Texts == {<<"bob">>}

BrowserCalls ==
    {Call("browser_attach", [cdp_url |-> <<"http://localhost:9222">>]),
     Call("browser_extract_text", <<>>)}
    \cup {Call("browser_navigate", [url |-> u]) : u \in Urls}
    \cup {Call("browser_click", [selector |-> sel]) : sel \in Selectors}
    \cup {Call("browser_wait_for_response", [selector |-> sel]) : sel \in Selectors}
    \cup {Call("browser_type_text", [selector |-> sel, text |-> t]) :
            sel \in Selectors, t \in Texts}
    \cup {Call("browser_type_and_submit",
               [type_selector |-> sel, text |-> t, submit_selector |-> sub]) :
            sel \in Selectors, t \in Texts, sub \in Selectors}

\* the world with the record of earlier calls' effects cleared: the trace
\* and the effects then tell of the last call alone
Fresh(w) == [w EXCEPT !.effects = {}]

\* await toolbox.execute_tool(action, params)
BrowserCall ==
    /\ \E c \in BrowserCalls :
        \E o \in execute_tool(toolbox, Fresh(world), c.action, c.params) :
            /\ toolbox' = o.tb
            /\ world' = o.w
            /\ trace' = <<Exec(c.action, c.params, toolbox, Fresh(world), o)>>
    /\ UNCHANGED <<pc, history, last_result, next_step, inbox, peer, client_state,
                   application_state>>

\* await toolbox.disconnect()
BrowserRelease ==
    /\ \E o \in disconnect(toolbox, Fresh(world)) :
        /\ toolbox' = o.tb
        /\ world' = o.w
        /\ trace' = <<Released(o.raised)>>
    /\ UNCHANGED <<pc, history, last_result, next_step, inbox, peer, client_state,
                   application_state>>

BrowserNext == BrowserCall \/ BrowserRelease

BrowserSpec == Init /\ [][BrowserNext]_vars

-----------------------------------------------------------------------------
(* The file tools called directly, in any order, on one Toolbox *)

FileCalls ==
    {Call("list_files", <<>>)}
    \cup {Call("list_files", [path |-> p]) : p \in {<<".">>, <<"sub">>} \cup BadPaths}
    \cup {Call("read_file", [path |-> p]) : p \in GoodPaths \cup BadPaths}
    \cup {Call("write_file", [path |-> p, content |-> c]) :
            p \in GoodPaths \cup BadPaths, c \in Contents}

\* toolbox.list_files(path), toolbox.read_file(path),
\* toolbox.write_file(path, content)
FileCall ==
    /\ \E c \in FileCalls :
        \E o \in execute_tool(toolbox, world, c.action, c.params) :
            /\ toolbox' = o.tb
            /\ world' = o.w
            /\ trace' = <<Exec(c.action, c.params, toolbox, world, o)>>
    /\ UNCHANGED <<pc, history, last_result, next_step, inbox, peer, client_state,
                   application_state>>

FileSpec == Init /\ [][FileCall]_vars

-----------------------------------------------------------------------------
(* Properties *)

IsSend(e) == e.ev = "send"
IsFrame(e, type) == IsSend(e) /\ "type" \in DOMAIN e.frame /\ e.frame.type = type
IsReceive(e, at) == e.ev \in {"recv", "lost"} /\ e.at = at
IsText(e, at) == e.ev = "recv" /\ e.at = at
Work(e) == e.ev \in {"step", "exec"}
Indices == 1..Len(trace)

\* the first brain.step or tool execution after event i, 0 when there is none
NextWork(i) ==
    LET later == {j \in (i + 1)..Len(trace) : Work(trace[j])}
    IN  IF later = {} THEN 0 ELSE CHOOSE j \in later : \A k \in later : j <= k

\* C1: when execute_task_ws has ended, whichever way it left its loop,
\* Toolbox.disconnect has been called exactly once; it is not called while
\* the loop runs.
C1_ReleasedOnce ==
    /\ InLoop \/ pc = "finally" => Count("toolbox.disconnect") = 0
    /\ pc = "done" => Count("toolbox.disconnect") = 1

\* the session ended after the client went away while it was paused
C1_Witness ==
    /\ pc = "done"
    /\ Count("toolbox.disconnect") = 1
    /\ \E i \in Indices : trace[i].ev = "lost" /\ trace[i].at = "pause"

IsPauseResult(e) ==
    e.ev = "exec" /\ ~e.raised /\ StartsWith(e.text, <<"PAUSE", ":">>)

\* C2: after a tool execution whose result starts with "PAUSE:", no
\* brain.step and no tool execution happens before a pause frame has been
\* sent and, right after it, one inbound frame has been received by the
\* blocking receive of the pause; that receive happens once.
C2_PauseBlocks ==
    [](
    \A i \in Indices :
        IsPauseResult(trace[i]) /\ NextWork(i) # 0 =>
            /\ \E k \in (i + 1)..(NextWork(i) - 2) :
                /\ IsFrame(trace[k], "pause")
                /\ IsText(trace[k + 1], "pause")
            /\ Cardinality({k \in i..NextWork(i) : IsReceive(trace[k], "pause")}) = 1
    )

\* a brain.step happened after a pause
C2_Witness ==
    \E i \in Indices : IsPauseResult(trace[i]) /\ NextWork(i) # 0

\* C3: no click and no fill is performed on an element whose type is
\* "password", whatever browser tools are called in whatever order.
C3_NoCredentialInteraction ==
    \A e \in world.effects : e.type # "password"

\* browser_type_and_submit was asked to submit through a password element
\* and has typed
C3_Witness ==
    /\ Len(trace) = 1
    /\ trace[1].ev = "exec"
    /\ trace[1].tool = "browser_type_and_submit"
    /\ trace[1].alive
    /\ trace[1].dom = LoginPage
    /\ trace[1].params.submit_selector = <<"#pass">>
    /\ \E e \in world.effects : e.op = "fill"

IsPassword(e, selector) ==
    e.alive /\ selector \in DOMAIN e.dom /\ e.dom[selector] = "password"

\* the call of event e comes to interact with a password element
ReachesCredential(e) ==
    /\ e.ev = "exec"
    /\ e.page # 0
    /\ \/ /\ e.tool \in {"browser_click", "browser_type_text"}
          /\ IsPassword(e, e.params.selector)
       \/ /\ e.tool = "browser_type_and_submit"
          /\ \/ IsPassword(e, e.params.type_selector)
             \/ /\ IsPassword(e, e.params.submit_selector)
                /\ \E x \in e.effects : x.op = "fill"

\* C4: a tool call that comes to interact with a password element returns a
\* text starting with "PAUSE:": browser_click, browser_type_text, and
\* browser_type_and_submit for its type_selector and for its submit_selector.
C4_CredentialTargetPauses ==
    \A i \in Indices :
        ReachesCredential(trace[i]) =>
            ~trace[i].raised /\ StartsWith(trace[i].text, <<"PAUSE", ":">>)

IsIdleStop(e) == IsText(e, "idle") /\ e.text = <<"stop">>

\* C5: once "stop" has been received by the receive at the top of the outer
\* loop, the session sends one frame, the status "Agent stopped by user.",
\* leaves its loop, and then receives nothing and sends no frame.
C5_StopCloses ==
    [](
    \A i \in Indices :
        IsIdleStop(trace[i]) =>
            /\ pc \in {"send_stopped", "finally", "done"}
            /\ (i = Len(trace)) = (pc = "send_stopped")
            /\ i < Len(trace) =>
                /\ IsSend(trace[i + 1])
                /\ trace[i + 1].frame = Status(<<"Agent stopped by user.">>)
            /\ \A j \in (i + 2)..Len(trace) :
                trace[j].ev \in {"toolbox.disconnect", "close"}
    )

\* "stop" closed the session after an earlier turn
C5_Witness ==
    /\ pc = "done"
    /\ \E i \in Indices :
        /\ IsIdleStop(trace[i])
        /\ \E j \in 1..(i - 1) : trace[j].ev = "step"

\* C6: when the receive of the pause gets "resume", last_result becomes
\* "User has handled the password field.", the history is left as it is and
\* the status "Agent is resuming." is sent next; when that send returns the
\* loop goes on to the interrupt poll with last_result and history unchanged.
C6_Resume ==
    [][ /\ (pc = "receive_pause" /\ pc' # pc /\ Received = Text(<<"resume">>)) =>
            /\ last_result' = Str(ResumeAck)
            /\ history' = history
            /\ pc' = "send_resuming"
        /\ (pc = "send_resuming" /\ pc' # pc) =>
            /\ IsSend(Last(trace'))
            /\ Last(trace').frame = Status(<<"Agent is resuming.">>)
            /\ history' = history
            /\ Returns(Last(trace').outcome) =>
                pc' = "poll" /\ last_result' = Str(ResumeAck)
      ]_vars

\* brain.step was called with the acknowledgment
C6_Witness ==
    Len(trace) > 0 /\ Last(trace) = Stepped(Str(ResumeAck), FALSE)

\* no brain.step was given a text starting with "PAUSE:", and the history
\* has no tool output starting with it
NoPauseFed ==
    /\ \A i \in Indices :
        trace[i].ev = "step" /\ ~trace[i].arg.none =>
            ~StartsWith(trace[i].arg.text, <<"PAUSE", ":">>)
    /\ \A n \in 1..Len(history) :
        history[n].role = "user" =>
            ~StartsWith(history[n].content, <<"Tool output: ", "PAUSE", ":">>)

\* after another text than "resume" received by the pause, the next thing
\* the session does is the receive at the top of the outer loop
RedirectEndsTurn ==
    \A i \in Indices :
        IsText(trace[i], "pause") /\ trace[i].text # <<"resume">> =>
            /\ i = Len(trace) => pc = "receive"
            /\ i < Len(trace) => IsReceive(trace[i + 1], "idle")

\* C7: when the receive of the pause gets a text other than "resume", that
\* text is appended to the history as one user message and the loop goes
\* back to the receive at the top of the outer loop; the paused tool is not
\* executed again and the "PAUSE:" text is never given to brain.step.
C7_Redirect ==
    [][ /\ (/\ pc = "receive_pause"
            /\ pc' # pc
            /\ Received.kind = "text"
            /\ Received.text # <<"resume">>) =>
                /\ history' = Append(history, [role |-> "user",
                                               content |-> Received.text])
                /\ pc' = "receive"
        /\ NoPauseFed'
        /\ RedirectEndsTurn'
      ]_vars

\* the pause was answered by "hello"
C7_Witness ==
    /\ pc = "receive"
    /\ Len(trace) > 0
    /\ Last(trace) = Recv("pause", <<"hello">>)
    /\ Last(history) = [role |-> "user", content |-> <<"hello">>]

IsUnknownExec(e) == e.ev = "exec" /\ e.tool \notin DOMAIN Signature

\* C8: when the action executed is no registered tool, execute_tool raises,
\* the next frame sent is an error frame whose message contains "Unknown
\* tool", last_result is that message, the loop goes on to the interrupt
\* poll and the next brain.step when the send returns, and a brain.step that
\* follows is given the message and appends it to the history as a tool
\* output.
C8_UnknownToolReported ==
    [](
    \A i \in Indices :
        IsUnknownExec(trace[i]) =>
            /\ trace[i].raised
            /\ i = Len(trace) =>
                /\ pc = "send_error"
                /\ Contains(last_result.text, "Unknown tool")
            /\ i < Len(trace) =>
                /\ IsFrame(trace[i + 1], "error")
                /\ Contains(trace[i + 1].frame.message, "Unknown tool")
            /\ i + 1 = Len(trace) /\ Returns(trace[i + 1].outcome) =>
                /\ pc \in {"poll", "step"}
                /\ last_result = Str(trace[i + 1].frame.message)
            /\ i + 1 < Len(trace) /\ trace[i + 2].ev = "step" =>
                /\ trace[i + 2].arg = Str(trace[i + 1].frame.message)
                /\ \E n \in 1..Len(history) :
                    /\ history[n].role = "user"
                    /\ history[n].content =
                        <<"Tool output: ">> \o trace[i + 1].frame.message
    )

\* brain.step ran after an unknown tool was reported
C8_Witness ==
    \E i \in Indices :
        /\ IsUnknownExec(trace[i])
        /\ i + 2 <= Len(trace)
        /\ trace[i + 2].ev = "step"

\* the frame of event i is the finish action, and the send returned
FinishSent(i) ==
    /\ IsSend(trace[i])
    /\ "action" \in DOMAIN trace[i].frame
    /\ trace[i].frame.action = "finish_task"
    /\ Returns(trace[i].outcome)

C10_FinishIntercepted ==
    [](
    /\ \A i \in Indices : trace[i].ev = "exec" => trace[i].tool # "finish_task"
    /\ \A i \in Indices :
        FinishSent(i) =>
            /\ i = Len(trace) => pc = "receive"
            /\ \A j \in (i + 1)..Len(trace) :
                Work(trace[j]) =>
                    \E k \in (i + 1)..(j - 1) : IsText(trace[k], "idle")
    )

\* a new turn began after a turn that ended on the finish action
C10_Witness ==
    \E i \in Indices :
        /\ FinishSent(i)
        /\ \E j \in (i + 1)..Len(trace) : trace[j].ev = "step"

\* the last tool execution before event k, 0 when there is none
LastExec(k) ==
    LET earlier == {i \in 1..(k - 1) : trace[i].ev = "exec"}
    IN  IF earlier = {} THEN 0 ELSE CHOOSE i \in earlier : \A j \in earlier : j <= i

Paused == pc \in {"send_pause", "receive_pause", "send_resuming"}

\* C11: a pause frame is sent, and the receive of the pause is made, only
\* after a tool execution whose result starts with "PAUSE:"; as long as no
\* tool result starts with it, no pause frame is sent and the session
\* receives only at the top of the outer loop and at the interrupt poll.
C11_NoSentinelNoPause ==
    [](
    /\ \A k \in Indices :
        IsFrame(trace[k], "pause") \/ IsReceive(trace[k], "pause") =>
            LastExec(k) # 0 /\ IsPauseResult(trace[LastExec(k)])
    /\ Paused =>
        LastExec(Len(trace) + 1) # 0 /\ IsPauseResult(trace[LastExec(Len(trace) + 1)])
    )

\* a tool returned a text without the sentinel and the turn went on to the
\* next brain.step
C11_Witness ==
    /\ \A i \in Indices : ~IsPauseResult(trace[i])
    /\ \E i \in Indices :
        /\ trace[i].ev = "exec"
        /\ ~trace[i].raised
        /\ NextWork(i) # 0

\* C12: the session sends a pause frame only after a tool execution that
\* came to interact with a password element.
C12_PausedOnlyOnCredential ==
    \A k \in Indices :
        IsFrame(trace[k], "pause") =>
            LastExec(k) # 0 /\ ReachesCredential(trace[LastExec(k)])

\* the frame of event i is what brain.step returned
IsStepFrame(i) == IsSend(trace[i]) /\ "type" \notin DOMAIN trace[i].frame

\* no brain.step has returned an action so far
NoActionPlanned ==
    /\ "action" \notin DOMAIN next_step
    /\ \A i \in Indices : IsStepFrame(i) => "action" \notin DOMAIN trace[i].frame

\* C13: as long as no brain.step has returned an action, no tool is
\* executed and no action_result, pause or error frame is sent; every
\* brain.step is given None; once a step's frame is sent the next thing the
\* session does is the interrupt poll, then the next brain.step unless the
\* poll received a frame or a disconnect; the turn ends only that way.
C13_ThoughtOnly ==
    NoActionPlanned =>
        /\ pc \notin {"execute", "send_result", "send_pause", "receive_pause",
                      "send_resuming", "send_error"}
        /\ pc \in {"step", "send_step", "poll"} => last_result = NoneVal
        /\ \A i \in Indices :
            /\ trace[i].ev # "exec"
            /\ ~IsFrame(trace[i], "action_result")
            /\ ~IsFrame(trace[i], "pause")
            /\ ~IsFrame(trace[i], "error")
            /\ trace[i].ev = "step" => trace[i].arg = NoneVal
            /\ IsStepFrame(i) /\ Returns(trace[i].outcome) =>
                /\ i = Len(trace) => pc \in {"poll", "step"}
                /\ i < Len(trace) =>
                    trace[i + 1].ev = "step" \/ IsReceive(trace[i + 1], "poll")

\* two steps of one turn returned a thought, the poll between them timed out
C13_Witness ==
    /\ NoActionPlanned
    /\ \E i \in Indices :
        /\ IsStepFrame(i)
        /\ i + 2 <= Len(trace)
        /\ trace[i + 1].ev = "step"
        /\ IsStepFrame(i + 2)

\* C14: when the inference call of a brain.step fails, brain.step returns a
\* thought, the session sends it as the step's frame and stays in its loop.
C14_FailureBecomesThought ==
    \A i \in Indices :
        trace[i].ev = "step" /\ trace[i].raised =>
            /\ i = Len(trace) =>
                pc = "send_step" /\ "thought" \in DOMAIN next_step
            /\ i < Len(trace) =>
                IsStepFrame(i + 1) /\ "thought" \in DOMAIN trace[i + 1].frame

\* the session saw that the client is gone: a receive raised, or a send
\* raised WebSocketDisconnect
Detected(e) ==
    e.ev = "lost" \/ (IsSend(e) /\ e.outcome = "WebSocketDisconnect")

\* C15: once a receive or a send has shown that the client is gone, the
\* session leaves its loop and calls neither send_json nor close afterwards.
C15_NoFrameAfterDisconnect ==
    \A i \in Indices :
        Detected(trace[i]) =>
            /\ ~InLoop
            /\ \A j \in (i + 1)..Len(trace) : trace[j].ev \notin {"send", "close"}

Replanning == Status(<<"Received new instruction, replanning...">>)

\* the poll took a new instruction, the replanning status was delivered,
\* and the client has sent nothing since
Preempted ==
    /\ Len(trace) > 1
    /\ Last(trace) = Send(Replanning, "sent")
    /\ IsText(trace[Len(trace) - 1], "poll")
    /\ inbox = <<>>
    /\ peer = "open"
    /\ Steps < MaxSteps

\* a brain.step was made after the last replanning status
SteppedSincePreempted ==
    \E i \in Indices :
        /\ IsSend(trace[i])
        /\ trace[i].frame = Replanning
        /\ \A j \in (i + 1)..Len(trace) : ~(IsSend(trace[j]) /\ trace[j].frame = Replanning)
        /\ \E j \in (i + 1)..Len(trace) : trace[j].ev = "step"

\* C16: once the poll has taken a new instruction and the replanning status
\* is sent, a brain.step eventually follows, unless the client sends another
\* frame or goes away first.
C16_PreemptedLeadsToStep ==
    Preempted ~> (SteppedSincePreempted \/ inbox # <<>> \/ peer = "gone")

\* log a is a prefix of log b
Extends(a, b) ==
    /\ Len(a) <= Len(b)
    /\ \A n \in 1..Len(a) : b[n].role = a[n].role /\ b[n].content = a[n].content

SystemFirst ==
    /\ Len(history) >= 1
    /\ history[1] = [role |-> "system", content |-> SystemPrompt]
    /\ \A n \in 2..Len(history) : history[n].role # "system"

\* C17: the history always starts with the system message and holds no
\* other system message, and every step of the session leaves the history
\* it had as a prefix of the history it has.
C17_LogAppendOnly ==
    []SystemFirst /\ [][Extends(history, history')]_vars

\* a turn of two steps: the instruction, an answer, a tool output, an answer
C17_Witness ==
    /\ Len(history) = 5
    /\ history[2].role = "user"
    /\ history[3].role = "assistant"
    /\ history[4].role = "user"
    /\ history[5].role = "assistant"

\* the path a file tool was called with
PathOf(e) == Arg(e.params, "path", <<".">>)

\* C18: a file tool called with a path that contains ".." or starts with
\* "/" returns the access error, write_file called with an existing path of
\* PROTECTED_FILES returns the overwriting error, and in both cases the
\* files are what they were before the call.
C18_RejectedCallHasNoEffect ==
    [][ Len(trace') = 1 =>
          LET e == trace'[1]
          IN  /\ Escapes(PathOf(e)) =>
                    /\ ~e.raised
                    /\ e.text = AccessDenied
                    /\ world'.fs = world.fs
              /\ (/\ e.tool = "write_file"
                  /\ ~Escapes(PathOf(e))
                  /\ PathOf(e) \in PROTECTED_FILES
                  /\ PathOf(e) \in DOMAIN world.fs) =>
                    /\ ~e.raised
                    /\ e.text = <<"Error", ": Overwriting '">> \o PathOf(e)
                                \o <<"' is not allowed.">>
                    /\ world'.fs = world.fs
      ]_vars

\* write_file was refused on config.toml after another file was written
C18_Witness ==
    /\ Len(trace) = 1
    /\ trace[1].tool = "write_file"
    /\ trace[1].params.path = <<"config.toml">>
    /\ Contains(trace[1].text, "Error")
    /\ world.fs # InitFs
    /\ world.fs[<<"config.toml">>] = InitFs[<<"config.toml">>]

\* C19: the handler comes to a brain.step only from the interrupt poll, the
\* first step of a turn included.
C19_PollBeforeStep ==
    [][pc # "step" /\ pc' = "step" => pc = "poll"]_vars

\* C20: a brain.step or a tool execution is over before anything else
\* starts: the event after a tool execution is the send of its
\* action_result frame or of its error frame, the event after a brain.step
\* is the send of what it returned (or the release of the toolbox when the
\* step raised); nothing is received in between.
C20_OneInFlight ==
    [](
    \A i \in Indices :
        /\ trace[i].ev = "exec" =>
            /\ i = Len(trace) => pc \in {"send_result", "send_error"}
            /\ i < Len(trace) =>
                /\ \/ IsFrame(trace[i + 1], "action_result")
                   \/ IsFrame(trace[i + 1], "error")
                /\ trace[i + 1].frame.type = "action_result" =>
                    /\ ~trace[i].raised
                    /\ trace[i + 1].frame.tool = trace[i].tool
                    /\ trace[i + 1].frame.output = trace[i].text
        /\ trace[i].ev = "step" =>
            /\ i = Len(trace) => pc \in {"send_step", "finally"}
            /\ i < Len(trace) =>
                IF trace[i].raised THEN trace[i + 1].ev = "toolbox.disconnect"
                ELSE IsStepFrame(i + 1)
    )

\* an instruction sent while a tool ran was taken by the poll after the
\* tool's frame
C20_Witness ==
    \E i \in Indices :
        /\ trace[i].ev = "exec"
        /\ i + 2 <= Len(trace)
        /\ IsText(trace[i + 2], "poll")

\* event e is the send of a frame that tells the outcome of a tool execution
IsOutcomeFrame(e) ==
    IsFrame(e, "action_result") \/ IsFrame(e, "pause") \/ IsFrame(e, "error")

\* the outcome frames delivered to the client right after the tool
\* execution of event i
Delivered(i) ==
    {k \in (i + 1)..Len(trace) :
        /\ \A j \in (i + 1)..k : IsOutcomeFrame(trace[j])
        /\ trace[k].outcome = "sent"}

\* C21 as claimed: a tool execution is followed by one outcome frame
\* delivered at most, an action_result frame when the result is no pause, a
\* pause frame when it is one, an error frame when the execution raised.
C21_OneOutcomeFrame ==
    \A i \in Indices :
        trace[i].ev = "exec" =>
            /\ Cardinality(Delivered(i)) <= 1
            /\ \A k \in Delivered(i) :
                trace[k].frame.type =
                    IF trace[i].raised THEN "error"
                    ELSE IF IsPauseResult(trace[i]) THEN "pause"
                    ELSE "action_result"

\* C21 as amended: a tool execution that returns is followed by the send of
\* one action_result frame, one that raises by the send of one error frame;
\* when the result starts with "PAUSE:" and the action_result send
\* returned, the send of one pause frame follows, and otherwise no further
\* outcome frame; when the send of an action_result or pause frame raises,
\* the send of one error frame follows it.
C21_OutcomeFrames ==
    [](
    \A i \in Indices :
        /\ trace[i].ev = "exec" /\ i < Len(trace) =>
            /\ IsFrame(trace[i + 1], IF trace[i].raised THEN "error" ELSE "action_result")
            /\ (/\ i + 1 = Len(trace)
                /\ IsPauseResult(trace[i])
                /\ Returns(trace[i + 1].outcome)) =>
                pc = "send_pause"
            /\ i + 1 < Len(trace) /\ Returns(trace[i + 1].outcome) =>
                IF IsPauseResult(trace[i])
                THEN IsFrame(trace[i + 2], "pause")
                ELSE ~IsOutcomeFrame(trace[i + 2])
        /\ IsFrame(trace[i], "pause") /\ Returns(trace[i].outcome) =>
            /\ i = Len(trace) => pc = "receive_pause"
            /\ i < Len(trace) => IsReceive(trace[i + 1], "pause")
        /\ (/\ IsFrame(trace[i], "action_result") \/ IsFrame(trace[i], "pause")
            /\ ~Returns(trace[i].outcome)) =>
            /\ i = Len(trace) => pc = "send_error"
            /\ i < Len(trace) => IsFrame(trace[i + 1], "error")
        /\ IsFrame(trace[i], "error") /\ i < Len(trace) =>
            ~IsOutcomeFrame(trace[i + 1])
    )

\* the action_result frame and the pause frame of one execution were both
\* delivered
C21_Witness ==
    /\ pc = "receive_pause"
    /\ \E i \in Indices :
        /\ IsPauseResult(trace[i])
        /\ Delivered(i) = {i + 1, i + 2}
        /\ IsFrame(trace[i + 1], "action_result")
        /\ IsFrame(trace[i + 2], "pause")

\* C22: a brain.step that returns appends the last result as a "Tool output:"
\* user message exactly when the last result is not None, the empty string
\* included, and then one assistant message: the history grows by 1 for None
\* and by 2 otherwise.
C22_ToolOutputAppended ==
    [][pc = "step" /\ pc' = "send_step" =>
        /\ Len(history') = Len(history) + (IF last_result.none THEN 1 ELSE 2)
        /\ history'[Len(history')].role = "assistant"
        /\ ~last_result.none =>
            history'[Len(history) + 1] =
                [role |-> "user", content |-> <<"Tool output: ">> \o last_result.text]
        /\ SubSeq(history', 1, Len(history)) = history]_vars

\* "stop" received by the interrupt poll or by the receive of the pause
IsInnerStop(e) ==
    e.ev = "recv" /\ e.at \in {"poll", "pause"} /\ e.text = <<"stop">>

Stopped == Status(<<"Agent stopped by user.">>)

\* C23: a "stop" received by the interrupt poll or by the receive of the
\* pause is an instruction like any other: it is appended to the history as a
\* user message, the turn ends (after the replanning status, at the poll) and
\* the handler is back at the receive at the top of the outer loop; the
\* status "Agent stopped by user." is sent only after a "stop" received
\* there.
C23_StopOnlyWhenIdle ==
    [](
    \A i \in Indices :
        IsInnerStop(trace[i]) =>
            /\ \E n \in 1..Len(history) :
                /\ history[n].role = "user"
                /\ history[n].content = <<"stop">>
            /\ i = Len(trace) =>
                /\ Last(history) = [role |-> "user", content |-> <<"stop">>]
                /\ pc = IF trace[i].at = "poll" THEN "send_replanning" ELSE "receive"
            /\ trace[i].at = "pause" /\ i < Len(trace) =>
                IsReceive(trace[i + 1], "idle")
            /\ trace[i].at = "poll" /\ i < Len(trace) =>
                /\ IsSend(trace[i + 1])
                /\ trace[i + 1].frame = Replanning
                /\ Returns(trace[i + 1].outcome) =>
                    /\ i + 1 = Len(trace) => pc = "receive"
                    /\ i + 1 < Len(trace) => IsReceive(trace[i + 2], "idle")
            /\ \A k \in (i + 1)..Len(trace) :
                IsSend(trace[k]) /\ trace[k].frame = Stopped =>
                    IsIdleStop(trace[k - 1])
    )

\* "stop" was taken by the interrupt poll and the handler waits for the next
\* instruction, nothing released or closed
C23_Witness ==
    /\ pc = "receive"
    /\ Len(trace) > 1
    /\ trace[Len(trace) - 1] = Recv("poll", <<"stop">>)
    /\ Last(trace) = Send(Replanning, "sent")
    /\ Last(history) = [role |-> "user", content |-> <<"stop">>]
    /\ Count("toolbox.disconnect") = 0

\* how many times browser handle h has been closed
Closes(h) == Cardinality({k \in 1..Len(world.closeLog) : world.closeLog[k] = h})

\* C24: once toolbox.disconnect() has returned in the finally block, every
\* browser handle that browser_attach acquired during the session has been
\* closed exactly once, however many times browser_attach was called.
C24_HandlesClosedOnce ==
    (pc = "done" /\ \E i \in Indices : trace[i] = Released(FALSE)) =>
        \A h \in 1..world.opened : Closes(h) = 1

====
